---- MODULE Spec2Model ----
(***************************************************************************)
(* A model of backend/server.py, the E-WIZZ electricity-monitoring         *)
(* backend: the MongoDB collections (users, appliances, usage_logs,        *)
(* tariffs) and the request handlers that read and write them.  Every      *)
(* handler is a coroutine; it can be interleaved with other requests at    *)
(* each `await` of a database call, so a handler is one action per         *)
(* database call, together with the synchronous code that follows it.      *)
(*                                                                         *)
(* Units.  Energy is counted in watt-minutes (1 kWh = 60000 W.min), so     *)
(* (power_rating / 1000) * (duration / 60) kWh is power_rating * duration. *)
(* Charges are counted in tenths of a currency unit (8.5 is 85), money in  *)
(* tenths times watt-minutes (1 currency unit = 600000).  round(x, 2) is   *)
(* rounding to the nearest hundredth, ties to even.                        *)
(*                                                                         *)
(* Time.  A datetime is [day, sec, us]: days since 2025-01-01, second of   *)
(* the day, microsecond.  Stored timestamps are ISO strings, modelled as   *)
(* the sequence of their fields, compared field by field as MongoDB        *)
(* compares strings.                                                       *)
(***************************************************************************)
EXTENDS Integers, Sequences, FiniteSets, TLC

VARIABLES
    users,        \* db.users: sequence of documents
    appliances,   \* db.appliances: appliance id -> document
    usage_logs,   \* db.usage_logs: sequence of documents, in insertion order
    tariffs,      \* db.tariffs: sequence of documents, in insertion order
    now,          \* the wall clock, datetime.now(timezone.utc)
    ticks,        \* how often the clock has advanced
    nextId,       \* number of uuids handed out to appliances
    req,          \* the requests in flight: slot -> handler frame
    resp,         \* the frame, with its response, of the request that the last step
                  \* completed; Idle when the last step completed none
    settled       \* the tariff of the last update_tariff that completed with
                  \* no tariff write after it (history, for the tariff claim)

vars == <<users, appliances, usage_logs, tariffs, now, ticks, nextId, req, resp, settled>>

db == <<users, appliances, usage_logs, tariffs>>

----------------------------------------------------------------------------
(* Bounds of the model *)

MaxReq == 2          \* requests in flight at once
MaxAppliances == 2   \* appliances ever created
MaxLogs == 2         \* usage records ever stored
MaxTicks == 2        \* clock advances
MaxUsers == 1        \* users ever registered

Slots == 1..MaxReq
ApplianceIds == 1..MaxAppliances

UserIds == {"u1", "u2"}
Usernames == {"alice"}
Names == {"AC", "TV"}
Ratings == {2000, 80000}             \* watts
Statuses == {"ON", "OFF", "STANDBY"} \* ApplianceControl.status is any string
Periods == {"yesterday", "today", "week", "month", "year", "other"}

----------------------------------------------------------------------------
(* Arithmetic *)

WattMinutesPerKWh == 60000
SecondsPerHour == 3600
LastSecond == 86399
DaysPerYear == 365
Year0 == 2025

Max(a, b) == IF a >= b THEN a ELSE b

\* round(x, 2) where x = n / (100 * q): the nearest multiple of q, ties to even,
\* in units of q
RoundHalfEven(n, q) ==
    LET lo == n \div q
        rem == n % q
    IN  IF 2 * rem < q THEN lo
        ELSE IF 2 * rem > q THEN lo + 1
        ELSE IF lo % 2 = 0 THEN lo ELSE lo + 1

\* round(energy, 2): watt-minutes to hundredths of a kWh
RoundEnergy(e) == RoundHalfEven(e, WattMinutesPerKWh \div 100)

\* round(money, 2): money to hundredths of a currency unit
RoundMoney(m) == RoundHalfEven(m, (WattMinutesPerKWh * 10) \div 100)

\* a charge in tenths as money
ChargeAsMoney(c) == c * WattMinutesPerKWh

RECURSIVE SumPower(_)
\* sum(log['power_consumed'] for log in logs)
SumPower(logs) ==
    IF logs = <<>> THEN 0 ELSE Head(logs).power_consumed + SumPower(Tail(logs))

----------------------------------------------------------------------------
(* Dates and ISO strings *)

MonthLengths == <<31, 28, 31, 30, 31, 30, 31, 31, 30, 31, 30, 31>>

RECURSIVE MonthOfDoy(_, _)
\* the month (1..12) and day of month of the doy-th day (from 0) of a year,
\* trying month m first
MonthOfDoy(doy, m) ==
    IF doy < MonthLengths[m] THEN [mon |-> m, dom |-> doy + 1]
    ELSE MonthOfDoy(doy - MonthLengths[m], m + 1)

\* the calendar of 2025 and 2026, neither a leap year: day -> date
Calendar ==
    [day \in 0..(2 * DaysPerYear - 1) |->
        LET md == MonthOfDoy(day % DaysPerYear, 1)
        IN  [year |-> Year0 + (day \div DaysPerYear), mon |-> md.mon, dom |-> md.dom]]

DateOf(day) == Calendar[day]

\* timedelta(days=n) subtracted from t
MinusDays(t, n) == [t EXCEPT !.day = t.day - n]

\* t.replace(hour=0, minute=0, second=0): the microsecond is kept
ReplaceMidnight(t) == [t EXCEPT !.sec = 0]

\* t.replace(hour=23, minute=59, second=59)
ReplaceLastSecond(t) == [t EXCEPT !.sec = LastSecond]

\* t.replace(day=1, hour=0, minute=0, second=0): the microsecond is kept
ReplaceMonthStart(t) == [day |-> t.day - (DateOf(t.day).dom - 1), sec |-> 0, us |-> t.us]

\* datetime.isoformat(): "YYYY-MM-DDTHH:MM:SS.ffffff+00:00", and without the
\* ".ffffff" when the microsecond is 0.  Fixed-width fields are one symbol each;
\* '.' is 46 and '+' is 43.
IsoFormat(t) ==
    LET d == DateOf(t.day)
    IN  <<d.year, d.mon, d.dom, t.sec>> \o (IF t.us = 0 THEN <<43>> ELSE <<46, t.us, 43>>)

RECURSIVE StrLess(_, _)
\* a < b as strings
StrLess(a, b) ==
    IF b = <<>> THEN FALSE
    ELSE IF a = <<>> THEN TRUE
    ELSE IF Head(a) # Head(b) THEN Head(a) < Head(b)
    ELSE StrLess(Tail(a), Tail(b))

StrLeq(a, b) == a = b \/ StrLess(a, b)

\* ts.strftime("%Y-%m-%d %H:00") of datetime.fromisoformat(s)
HourKey(s) == <<s[1], s[2], s[3], s[4] \div SecondsPerHour>>

\* the calendar date of an ISO string
DateKey(s) == <<s[1], s[2], s[3]>>

----------------------------------------------------------------------------
(* Documents *)

None == <<>>
Some(x) == <<x>>

Idle == [op |-> "idle"]

\* Tariff(name="Standard Tariff", fixed_charge=50.0, per_unit_charge=8.5)
DefaultTariff == [name |-> "Standard Tariff", fixed_charge |-> 500, per_unit_charge |-> 85]

\* the tariffs an administrator submits
SubmittedTariffs ==
    { [name |-> "Peak", fixed_charge |-> 1000, per_unit_charge |-> 70],
      [name |-> "Night", fixed_charge |-> 600, per_unit_charge |-> 41] }

\* {'fixed_charge': 50.0, 'per_unit_charge': 8.5}
FallbackTariff == [name |-> "", fixed_charge |-> 500, per_unit_charge |-> 85]

\* db.tariffs.find_one({}): the first document in natural order
FindOneTariff == IF tariffs = <<>> THEN None ELSE Some(Head(tariffs))

Init ==
    /\ users = <<>>
    /\ appliances = <<>>
    /\ usage_logs = <<>>
    /\ tariffs = <<>>
    /\ now = [day |-> 668, sec |-> LastSecond, us |-> 0]
    /\ ticks = 0
    /\ nextId = 0
    /\ req = [r \in Slots |-> Idle]
    /\ resp = Idle
    /\ settled = None

----------------------------------------------------------------------------
(* The clock *)

\* the clock advances by a microsecond
TickMicro ==
    /\ ticks < MaxTicks
    /\ now' = [now EXCEPT !.us = now.us + 1]
    /\ ticks' = ticks + 1
    /\ resp' = Idle
    /\ UNCHANGED <<users, appliances, usage_logs, tariffs, nextId, req, settled>>

\* the clock advances by a second, into the next day after 23:59:59
TickSecond ==
    /\ ticks < MaxTicks
    /\ now' = IF now.sec = LastSecond
                 THEN [now EXCEPT !.day = now.day + 1, !.sec = 0]
                 ELSE [now EXCEPT !.sec = now.sec + 1]
    /\ ticks' = ticks + 1
    /\ resp' = Idle
    /\ UNCHANGED <<users, appliances, usage_logs, tariffs, nextId, req, settled>>

\* a request is served in a free frame; which one carries no meaning, so it is
\* the first
HasFreeSlot == \E r \in Slots : req[r] = Idle
FreeSlot == CHOOSE r \in Slots : req[r] = Idle /\ \A q \in Slots : q < r => req[q] # Idle

\* no request is in flight
Quiet == \A r \in Slots : req[r] = Idle

\* a request moves on: its frame is kept while it runs and is handed out as
\* the response once it is done
Step(r, f) ==
    IF f.pc = "done"
    THEN req' = [req EXCEPT ![r] = Idle] /\ resp' = f
    ELSE req' = [req EXCEPT ![r] = f] /\ resp' = Idle

----------------------------------------------------------------------------
(* Appliances *)

\* create_appliance: one insert of an appliance with a fresh uuid, status OFF
CreateAppliance(user_id, name, power_rating) ==
    /\ nextId < MaxAppliances
    /\ nextId' = nextId + 1
    /\ appliances' = (nextId + 1 :> [id |-> nextId + 1, user_id |-> user_id, name |-> name,
                                     power_rating |-> power_rating, status |-> "OFF"])
                      @@ appliances
    /\ resp' = Idle
    /\ UNCHANGED <<users, usage_logs, tariffs, now, ticks, req, settled>>

\* the frame of a control_appliance request
ControlFrame(appliance_id, status, pc, code, matched, was, usage, logged) ==
    [op |-> "control", pc |-> pc, appliance_id |-> appliance_id, status |-> status,
     code |-> code,        \* the HTTP status of the response, 0 while running
     matched |-> matched,  \* result.matched_count of the update
     was |-> was,          \* the status the update replaced, None if no appliance
     usage |-> usage,      \* usage_doc, once built
     logged |-> logged]    \* usage records this request has inserted

\* result.modified_count of update_one({"id": id}, {"$set": {"status": status}}):
\* a document that already holds the value is matched but not modified
ModifiedCount(appliance_id, status) ==
    IF appliance_id \in DOMAIN appliances /\ appliances[appliance_id].status # status
    THEN 1 ELSE 0

\* control_appliance up to its first await: the update, the 404, the branch on OFF
ControlUpdate(r, appliance_id, status) ==
    LET exists == appliance_id \in DOMAIN appliances
        was == IF exists THEN Some(appliances[appliance_id].status) ELSE None
        matched == IF exists THEN 1 ELSE 0
        modified == ModifiedCount(appliance_id, status)
    IN  /\ HasFreeSlot
        /\ r = FreeSlot
        /\ appliances' = IF exists
                            THEN [appliances EXCEPT ![appliance_id].status = status]
                            ELSE appliances
        /\ Step(r,
                     IF modified = 0
                     THEN ControlFrame(appliance_id, status, "done", 404, matched, was, None, 0)
                     ELSE IF status = "OFF"
                     THEN ControlFrame(appliance_id, status, "find", 0, matched, was, None, 0)
                     ELSE ControlFrame(appliance_id, status, "done", 200, matched, was, None, 0))
        /\ UNCHANGED <<users, usage_logs, tariffs, now, ticks, nextId, settled>>

\* (appliance['power_rating'] / 1000) * (duration / 60), in watt-minutes
PowerConsumed(power_rating, duration) == power_rating * duration

ControlDuration == 90

\* the find_one after the update and the UsageLog built from it; find_one
\* returns None for a deleted appliance and appliance['power_rating'] raises
ControlFind(r) ==
    LET f == req[r]
        id == f.appliance_id
    IN  /\ f # Idle
        /\ f.op = "control"
        /\ f.pc = "find"
        /\ Step(r,
                     IF id \in DOMAIN appliances
                     THEN [f EXCEPT !.pc = "insert",
                                    !.usage = Some([user_id |-> appliances[id].user_id,
                                                    appliance_id |-> id,
                                                    timestamp |-> IsoFormat(now),
                                                    duration_minutes |-> ControlDuration,
                                                    power_consumed |->
                                                        PowerConsumed(appliances[id].power_rating,
                                                                      ControlDuration)])]
                     ELSE [f EXCEPT !.pc = "done", !.code = 500])
        /\ UNCHANGED <<users, appliances, usage_logs, tariffs, now, ticks, nextId, settled>>

\* db.usage_logs.insert_one(usage_doc) and the response
ControlInsert(r) ==
    LET f == req[r]
    IN  /\ f # Idle
        /\ f.op = "control"
        /\ f.pc = "insert"
        /\ Len(usage_logs) < MaxLogs
        /\ usage_logs' = Append(usage_logs, f.usage[1])
        /\ Step(r, [f EXCEPT !.pc = "done", !.code = 200, !.logged = 1])
        /\ UNCHANGED <<users, appliances, tariffs, now, ticks, nextId, settled>>

\* control_appliance served without another request in between, when its
\* update modifies the appliance (otherwise it ends in 404 and changes nothing):
\* the update and, on OFF, the usage record of the appliance
ControlAppliance(appliance_id, status) ==
    /\ ModifiedCount(appliance_id, status) = 1
    /\ appliances' = [appliances EXCEPT ![appliance_id].status = status]
    /\ IF status = "OFF"
       THEN /\ Len(usage_logs) < MaxLogs
            /\ usage_logs' =
                   Append(usage_logs,
                          [user_id |-> appliances[appliance_id].user_id,
                           appliance_id |-> appliance_id,
                           timestamp |-> IsoFormat(now),
                           duration_minutes |-> ControlDuration,
                           power_consumed |->
                               PowerConsumed(appliances[appliance_id].power_rating,
                                             ControlDuration)])
       ELSE UNCHANGED usage_logs
    /\ resp' = Idle
    /\ UNCHANGED <<users, tariffs, now, ticks, nextId, req, settled>>

\* delete_appliance: one delete_one; 404 when nothing was deleted
DeleteAppliance(appliance_id) ==
    /\ appliances' = [a \in DOMAIN appliances \ {appliance_id} |-> appliances[a]]
    /\ resp' = Idle
    /\ UNCHANGED <<users, usage_logs, tariffs, now, ticks, nextId, req, settled>>

----------------------------------------------------------------------------
(* Tariffs and the bill *)

\* the frame of an update_tariff request
TariffFrame(tariff, pc) == [op |-> "tariff", pc |-> pc, tariff |-> tariff]

\* update_tariff up to its first await: db.tariffs.delete_many({})
UpdateTariffDelete(r, tariff) ==
    /\ HasFreeSlot
    /\ r = FreeSlot
    /\ tariffs' = <<>>
    /\ settled' = None
    /\ Step(r, TariffFrame(tariff, "insert"))
    /\ UNCHANGED <<users, appliances, usage_logs, now, ticks, nextId>>

\* db.tariffs.insert_one(tariff_doc) and the response
UpdateTariffInsert(r) ==
    LET f == req[r]
    IN  /\ f # Idle
        /\ f.op = "tariff"
        /\ f.pc = "insert"
        /\ tariffs' = Append(tariffs, f.tariff)
        /\ settled' = Some(f.tariff)
        /\ Step(r, [f EXCEPT !.pc = "done"])
        /\ UNCHANGED <<users, appliances, usage_logs, now, ticks, nextId>>

\* k kWh in watt-minutes
KWh(k) == k * WattMinutesPerKWh

\* the bill under the slabs (<=50 @ 4.15 fixed 60), (<=100 @ 5.60 fixed 80),
\* (<=200 @ 7.15 fixed 100), (>200 @ 8.20 fixed 120): what calculate_bill would
\* return if it billed by slab
BillResultSlabbed(tariff, logs) ==
    LET total_units == SumPower(logs)
        Part(lo, hi) == IF total_units <= lo THEN 0
                        ELSE IF total_units >= hi THEN hi - lo ELSE total_units - lo
        variable_charge == (Part(0, KWh(50)) \div 10) * 415
                           + (Part(KWh(50), KWh(100)) \div 10) * 560
                           + (Part(KWh(100), KWh(200)) \div 10) * 715
                           + (Part(KWh(200), KWh(400)) \div 10) * 820
        fixed_charge == IF total_units <= KWh(50) THEN 600
                        ELSE IF total_units <= KWh(100) THEN 800
                        ELSE IF total_units <= KWh(200) THEN 1000 ELSE 1200
    IN  [fixed_charge |-> fixed_charge,
         per_unit_charge |-> tariff.per_unit_charge,
         total_units |-> RoundEnergy(total_units),
         variable_charge |-> RoundMoney(variable_charge),
         total_bill |-> RoundMoney(ChargeAsMoney(fixed_charge) + variable_charge)]

\* what calculate_bill would return if it left the fixed charge out of the total
BillResultNoFixed(tariff, logs) ==
    LET total_units == SumPower(logs)
        variable_charge == total_units * tariff.per_unit_charge
    IN  [fixed_charge |-> tariff.fixed_charge,
         per_unit_charge |-> tariff.per_unit_charge,
         total_units |-> RoundEnergy(total_units),
         variable_charge |-> RoundMoney(variable_charge),
         total_bill |-> RoundMoney(variable_charge)]

\* the body of calculate_bill's response once the month's logs are read
\* (total_units, variable_charge, total_bill and their rounding)
BillResult(tariff, logs) ==
    LET total_units == SumPower(logs)
        variable_charge == total_units * tariff.per_unit_charge
        total_bill == ChargeAsMoney(tariff.fixed_charge) + variable_charge
    IN  [fixed_charge |-> tariff.fixed_charge,
         per_unit_charge |-> tariff.per_unit_charge,
         total_units |-> RoundEnergy(total_units),
         variable_charge |-> RoundMoney(variable_charge),
         total_bill |-> RoundMoney(total_bill)]

NoBill == [fixed_charge |-> 0, per_unit_charge |-> 0, total_units |-> 0,
           variable_charge |-> 0, total_bill |-> 0]

\* the frame of a calculate_bill request
BillFrame(user_id, pc, tariff, at, logs, response) ==
    [op |-> "bill", pc |-> pc, user_id |-> user_id,
     tariff |-> tariff,      \* the tariff the bill is computed with
     at |-> at,              \* now, as read before the logs query
     logs |-> logs,          \* the result of the query
     response |-> response]

\* calculate_bill up to its first await: db.tariffs.find_one({})
BillFindTariff(r, user_id) ==
    /\ HasFreeSlot
    /\ r = FreeSlot
    /\ Step(r,
                 IF FindOneTariff = None
                 THEN BillFrame(user_id, "insert", DefaultTariff, None, <<>>, NoBill)
                 ELSE BillFrame(user_id, "logs", FindOneTariff[1], None, <<>>, NoBill))
    /\ UNCHANGED <<users, appliances, usage_logs, tariffs, now, ticks, nextId, settled>>

\* no tariff was found: db.tariffs.insert_one(tariff_doc) of the default tariff
BillInsertDefault(r) ==
    LET f == req[r]
    IN  /\ f # Idle
        /\ f.op = "bill"
        /\ f.pc = "insert"
        /\ tariffs' = Append(tariffs, f.tariff)
        /\ settled' = None
        /\ Step(r, [f EXCEPT !.pc = "logs"])
        /\ UNCHANGED <<users, appliances, usage_logs, now, ticks, nextId>>

\* db.usage_logs.find({"user_id": user_id, "timestamp": {"$gte": start}})
LogsSince(user_id, start) ==
    LET gte == IsoFormat(start)
    IN  SelectSeq(usage_logs,
                  LAMBDA log : log.user_id = user_id /\ StrLeq(gte, log.timestamp))

\* the month's logs are read and the bill is returned
BillLogs(r) ==
    LET f == req[r]
        logs == LogsSince(f.user_id, ReplaceMonthStart(now))
    IN  /\ f # Idle
        /\ f.op = "bill"
        /\ f.pc = "logs"
        /\ Step(r,
                     BillFrame(f.user_id, "done", f.tariff, Some(now), logs,
                               BillResult(f.tariff, logs)))
        /\ UNCHANGED <<users, appliances, usage_logs, tariffs, now, ticks, nextId, settled>>

----------------------------------------------------------------------------
(* The forecast *)

PredictDays == 30

\* the number of distinct calendar dates among the logs
UniqueDays(logs) == Cardinality({DateKey(logs[i].timestamp) : i \in 1..Len(logs)})

\* the average over the distinct days of the logs, which predict_cost does not take
AvgDailyUniqueDays(total_consumption, logs) ==
    total_consumption \div Max(UniqueDays(logs), 1)

\* avg_daily = total_consumption / days; every power_consumed of the model is a
\* multiple of 90 watt-minutes, so the quotient is exact
AvgDaily(total_consumption, logs) == total_consumption \div PredictDays

\* the frame of a predict_cost request
PredictFrame(user_id, pc, logs, avg_daily, predicted_monthly_units, response) ==
    [op |-> "predict", pc |-> pc, user_id |-> user_id, logs |-> logs,
     avg_daily |-> avg_daily, predicted_monthly_units |-> predicted_monthly_units,
     response |-> response]

\* {"predicted_monthly_cost": 0, "predicted_units": 0}: no average_daily_units
ZeroForecast ==
    [predicted_monthly_cost |-> 0, predicted_units |-> 0, average_daily_units |-> None]

\* predict_cost up to its first await: the logs of the last 30 days, the early
\* return on none, the average and the projection
PredictLogs(r, user_id) ==
    LET logs == LogsSince(user_id, MinusDays(now, PredictDays))
        avg_daily == AvgDaily(SumPower(logs), logs)
    IN  /\ HasFreeSlot
        /\ r = FreeSlot
        /\ Step(r,
                     IF logs = <<>>
                     THEN PredictFrame(user_id, "done", logs, 0, 0, ZeroForecast)
                     ELSE PredictFrame(user_id, "tariff", logs, avg_daily,
                                       avg_daily * PredictDays, ZeroForecast))
        /\ UNCHANGED <<users, appliances, usage_logs, tariffs, now, ticks, nextId, settled>>

\* predict_cost if it stored the fallback tariff as calculate_bill stores its default
PredictTariffStoring(r) ==
    LET f == req[r]
        tariff == IF FindOneTariff = None THEN FallbackTariff ELSE FindOneTariff[1]
    IN  /\ f # Idle
        /\ f.op = "predict"
        /\ f.pc = "tariff"
        /\ tariffs' = IF FindOneTariff = None THEN Append(tariffs, tariff) ELSE tariffs
        /\ Step(r, [f EXCEPT !.pc = "done"])
        /\ UNCHANGED <<users, appliances, usage_logs, now, ticks, nextId, settled>>

\* db.tariffs.find_one({}), the fallback tariff, the cost and the response
PredictTariff(r) ==
    LET f == req[r]
        tariff == IF FindOneTariff = None THEN FallbackTariff ELSE FindOneTariff[1]
        predicted_cost == ChargeAsMoney(tariff.fixed_charge)
                          + f.predicted_monthly_units * tariff.per_unit_charge
    IN  /\ f # Idle
        /\ f.op = "predict"
        /\ f.pc = "tariff"
        /\ Step(r,
                     [f EXCEPT !.pc = "done",
                               !.response =
                                   [predicted_monthly_cost |-> RoundMoney(predicted_cost),
                                    predicted_units |-> RoundEnergy(f.predicted_monthly_units),
                                    average_daily_units |-> Some(RoundEnergy(f.avg_daily))]])
        /\ UNCHANGED <<users, appliances, usage_logs, tariffs, now, ticks, nextId, settled>>

----------------------------------------------------------------------------
(* The dashboard *)

\* the time range of a period: [start, end]
WindowOf(period, t) ==
    IF period = "yesterday"
    THEN <<ReplaceMidnight(MinusDays(t, 1)), ReplaceLastSecond(MinusDays(t, 1))>>
    ELSE IF period = "today" THEN <<ReplaceMidnight(t), t>>
    ELSE IF period = "week" THEN <<MinusDays(t, 7), t>>
    ELSE IF period = "month" THEN <<MinusDays(t, 30), t>>
    ELSE IF period = "year" THEN <<MinusDays(t, 365), t>>
    ELSE <<ReplaceMidnight(t), t>>

\* db.usage_logs.find({"user_id": user_id, "timestamp": {"$gte": start, "$lte": end}})
LogsBetween(user_id, start, end) ==
    LET gte == IsoFormat(start)
        lte == IsoFormat(end)
    IN  SelectSeq(usage_logs,
                  LAMBDA log : /\ log.user_id = user_id
                               /\ StrLeq(gte, log.timestamp)
                               /\ StrLeq(log.timestamp, lte))

\* adding v to the entry of key k of a dict, d[k] = d.get(k, 0) + v
Accumulate(d, k, v) == (k :> (IF k \in DOMAIN d THEN d[k] ELSE 0) + v) @@ d

RECURSIVE ApplianceUsageSkipping(_, _, _)
\* the loop if it skipped the logs of appliances it cannot name
ApplianceUsageSkipping(logs, appliance_map, appliance_usage) ==
    IF logs = <<>> THEN appliance_usage
    ELSE LET log == Head(logs)
         IN  ApplianceUsageSkipping(
                 Tail(logs), appliance_map,
                 IF log.appliance_id \in DOMAIN appliance_map
                 THEN Accumulate(appliance_usage, appliance_map[log.appliance_id],
                                 log.power_consumed)
                 ELSE appliance_usage)

RECURSIVE ApplianceUsage(_, _, _)
\* the loop over logs that fills appliance_usage
ApplianceUsage(logs, appliance_map, appliance_usage) ==
    IF logs = <<>> THEN appliance_usage
    ELSE LET log == Head(logs)
             app_name == IF log.appliance_id \in DOMAIN appliance_map
                         THEN appliance_map[log.appliance_id] ELSE "Unknown"
         IN  ApplianceUsage(Tail(logs), appliance_map,
                            Accumulate(appliance_usage, app_name, log.power_consumed))

RECURSIVE HourlyData(_, _)
\* the loop over logs that fills hourly_data
HourlyData(logs, hourly_data) ==
    IF logs = <<>> THEN hourly_data
    ELSE HourlyData(Tail(logs),
                    Accumulate(hourly_data, HourKey(Head(logs).timestamp),
                               Head(logs).power_consumed))

\* {a['id']: a['name'] for a in appliances} over the user's appliances
ApplianceMap(user_id) ==
    LET mine == {a \in DOMAIN appliances : appliances[a].user_id = user_id}
    IN  [a \in mine |-> appliances[a].name]

\* the frame of a get_dashboard_data request
DashboardFrame(user_id, period, pc, logs, total_consumption, response) ==
    [op |-> "dashboard", pc |-> pc, user_id |-> user_id, period |-> period, logs |-> logs,
     total_consumption |-> total_consumption, response |-> response]

NoDashboard == [total_consumption |-> 0, appliance_breakdown |-> <<>>, hourly_data |-> <<>>]

\* get_dashboard_data up to its first await: the time range, the logs, the total
DashboardLogs(r, user_id, period) ==
    LET w == WindowOf(period, now)
        logs == LogsBetween(user_id, w[1], w[2])
    IN  /\ HasFreeSlot
        /\ r = FreeSlot
        /\ Step(r,
                     DashboardFrame(user_id, period, "appliances", logs, SumPower(logs),
                                    NoDashboard))
        /\ UNCHANGED <<users, appliances, usage_logs, tariffs, now, ticks, nextId, settled>>

\* db.appliances.find({"user_id": user_id}), the breakdown, the hourly data and
\* the response
DashboardAppliances(r) ==
    LET f == req[r]
    IN  /\ f # Idle
        /\ f.op = "dashboard"
        /\ f.pc = "appliances"
        /\ Step(r,
                     [f EXCEPT !.pc = "done",
                               !.response =
                                   [total_consumption |-> RoundEnergy(f.total_consumption),
                                    appliance_breakdown |->
                                        ApplianceUsage(f.logs, ApplianceMap(f.user_id), <<>>),
                                    hourly_data |-> HourlyData(f.logs, <<>>)]])
        /\ UNCHANGED <<users, appliances, usage_logs, tariffs, now, ticks, nextId, settled>>

----------------------------------------------------------------------------
(* Users *)

\* the frame of a register request
RegisterFrame(username, pc, code) ==
    [op |-> "register", pc |-> pc, username |-> username, code |-> code]

\* register up to its first await: find_one by username, 400 if it exists
RegisterFind(r, username) ==
    /\ HasFreeSlot
    /\ r = FreeSlot
    /\ Step(r,
                 IF \E i \in 1..Len(users) : users[i].username = username
                 THEN RegisterFrame(username, "done", 400)
                 ELSE RegisterFrame(username, "insert", 0))
    /\ UNCHANGED <<users, appliances, usage_logs, tariffs, now, ticks, nextId, settled>>

\* db.users.insert_one(doc) and the response
RegisterInsert(r) ==
    LET f == req[r]
    IN  /\ f # Idle
        /\ f.op = "register"
        /\ f.pc = "insert"
        /\ Len(users) < MaxUsers
        /\ users' = Append(users, [username |-> f.username, role |-> "user"])
        /\ Step(r, [f EXCEPT !.pc = "done", !.code = 200])
        /\ UNCHANGED <<appliances, usage_logs, tariffs, now, ticks, nextId, settled>>

\* delete_user: one delete_one of the first user with the id (here: the name)
DeleteUser(username) ==
    /\ \E i \in 1..Len(users) : users[i].username = username
    /\ LET i == CHOOSE j \in 1..Len(users) :
                   users[j].username = username
                   /\ \A k \in 1..(j - 1) : users[k].username # username
       IN  users' = SubSeq(users, 1, i - 1) \o SubSeq(users, i + 1, Len(users))
    /\ resp' = Idle
    /\ UNCHANGED <<appliances, usage_logs, tariffs, now, ticks, nextId, req, settled>>

----------------------------------------------------------------------------
(* Specifications *)

\* every handler, every input
Next ==
    \/ TickMicro
    \/ TickSecond
    \/ \E u \in UserIds, n \in Names, p \in Ratings : CreateAppliance(u, n, p)
    \/ \E a \in ApplianceIds, s \in Statuses : ControlUpdate(FreeSlot, a, s)
    \/ \E r \in Slots : ControlFind(r)
    \/ \E r \in Slots : ControlInsert(r)
    \/ \E a \in ApplianceIds : DeleteAppliance(a)
    \/ \E t \in SubmittedTariffs : UpdateTariffDelete(FreeSlot, t)
    \/ \E r \in Slots : UpdateTariffInsert(r)
    \/ \E u \in UserIds : BillFindTariff(FreeSlot, u)
    \/ \E r \in Slots : BillInsertDefault(r)
    \/ \E r \in Slots : BillLogs(r)
    \/ \E u \in UserIds : PredictLogs(FreeSlot, u)
    \/ \E r \in Slots : PredictTariff(r)
    \/ \E u \in UserIds, p \in Periods : DashboardLogs(FreeSlot, u, p)
    \/ \E r \in Slots : DashboardAppliances(r)
    \/ \E n \in Usernames : RegisterFind(FreeSlot, n)
    \/ \E r \in Slots : RegisterInsert(r)
    \/ \E n \in Usernames : DeleteUser(n)

Spec == Init /\ [][Next]_vars

\* the appliance handlers alone, with one owner and any status string
NextAppliance ==
    \/ \E p \in Ratings : CreateAppliance("u1", "AC", p)
    \/ \E a \in ApplianceIds, s \in Statuses : ControlUpdate(FreeSlot, a, s)
    \/ \E r \in Slots : ControlFind(r)
    \/ \E r \in Slots : ControlInsert(r)
    \/ \E a \in ApplianceIds : DeleteAppliance(a)

SpecAppliance == Init /\ [][NextAppliance]_vars

\* the handlers that read or write db.tariffs
NextTariff ==
    \/ \E t \in SubmittedTariffs : UpdateTariffDelete(FreeSlot, t)
    \/ \E r \in Slots : UpdateTariffInsert(r)
    \/ BillFindTariff(FreeSlot, "u1")
    \/ \E r \in Slots : BillInsertDefault(r)
    \/ \E r \in Slots : BillLogs(r)

SpecTariff == Init /\ [][NextTariff]_vars

\* the bill over the usage records that switching appliances off leaves, for
\* the owner of the appliances and for a user without any, starting with no
\* tariff or with one an administrator has stored
InitBilling ==
    /\ users = <<>>
    /\ appliances = <<>>
    /\ usage_logs = <<>>
    /\ tariffs \in {<<>>} \cup {<<t>> : t \in SubmittedTariffs}
    /\ now = [day |-> 668, sec |-> LastSecond, us |-> 0]
    /\ ticks = 0
    /\ nextId = 0
    /\ req = [r \in Slots |-> Idle]
    /\ resp = Idle
    /\ settled = None

NextBilling ==
    \/ TickMicro
    \/ TickSecond
    \/ CreateAppliance("u1", "AC", 80000)
    \/ \E a \in ApplianceIds, s \in {"ON", "OFF"} : ControlAppliance(a, s)
    \/ \E u \in UserIds : Quiet /\ BillFindTariff(FreeSlot, u)
    \/ \E r \in Slots : BillInsertDefault(r)
    \/ \E r \in Slots : BillLogs(r)

SpecBilling == InitBilling /\ [][NextBilling]_vars

\* the dashboard over the appliances and usage records of one owner, whose
\* appliances may share a name and may be deleted
NextDashboard ==
    \/ \E n \in Names : CreateAppliance("u1", n, 2000)
    \/ \E a \in ApplianceIds, s \in {"ON", "OFF"} : ControlAppliance(a, s)
    \/ \E a \in ApplianceIds : DeleteAppliance(a)
    \/ \E p \in Periods : Quiet /\ DashboardLogs(FreeSlot, "u1", p)
    \/ \E r \in Slots : DashboardAppliances(r)

SpecDashboard == Init /\ [][NextDashboard]_vars

\* the forecast over the usage records of one owner, starting with no tariff
\* or with one an administrator has stored
NextForecast ==
    \/ TickSecond
    \/ CreateAppliance("u1", "AC", 2000)
    \/ \E a \in ApplianceIds, s \in {"ON", "OFF"} : ControlAppliance(a, s)
    \/ \E u \in UserIds : Quiet /\ PredictLogs(FreeSlot, u)
    \/ \E r \in Slots : PredictTariff(r)

SpecForecast == InitBilling /\ [][NextForecast]_vars

\* the three reading handlers next to the handlers that write each collection
NextRead ==
    \/ CreateAppliance("u1", "AC", 2000)
    \/ \E a \in ApplianceIds, s \in {"ON", "OFF"} : ControlAppliance(a, s)
    \/ \E a \in ApplianceIds : DeleteAppliance(a)
    \/ \E n \in Usernames : Quiet /\ RegisterFind(FreeSlot, n)
    \/ \E r \in Slots : RegisterInsert(r)
    \/ \E n \in Usernames : DeleteUser(n)
    \/ Quiet /\ BillFindTariff(FreeSlot, "u1")
    \/ \E r \in Slots : BillInsertDefault(r)
    \/ \E r \in Slots : BillLogs(r)
    \/ Quiet /\ PredictLogs(FreeSlot, "u1")
    \/ \E r \in Slots : PredictTariff(r)
    \/ \E p \in {"today", "month"} : Quiet /\ DashboardLogs(FreeSlot, "u1", p)
    \/ \E r \in Slots : DashboardAppliances(r)

SpecRead == InitBilling /\ [][NextRead]_vars

----------------------------------------------------------------------------
(* Properties *)

RECURSIVE SumValues(_)
\* the sum of the values of a dict
SumValues(d) ==
    IF DOMAIN d = {} THEN 0
    ELSE LET k == CHOOSE x \in DOMAIN d : TRUE
         IN  d[k] + SumValues([x \in DOMAIN d \ {k} |-> d[x]])

\* C1: when a dashboard request completes, the values of appliance_breakdown
\* add up to the unrounded total_consumption of the records it read.
C1_BreakdownSumsToTotal ==
    resp.op = "dashboard" =>
        SumValues(resp.response.appliance_breakdown) = resp.total_consumption

\* a dashboard over two records, one of a deleted appliance and one of a named one
C1_Witness ==
    /\ resp.op = "dashboard"
    /\ Len(resp.logs) = 2
    /\ DOMAIN resp.response.appliance_breakdown = {"Unknown", "AC"}

\* C2 as stated: the average is the total over the number of distinct days of
\* the records (at least 1), and the projection is 30 times the average.
C2_AverageOverUniqueDays ==
    (resp.op = "predict" /\ resp.logs # <<>>) =>
        /\ resp.avg_daily * Max(UniqueDays(resp.logs), 1) = SumPower(resp.logs)
        /\ resp.predicted_monthly_units = resp.avg_daily * PredictDays

\* C2, amended: the average is the total over the 30 days of the window,
\* whatever the days of the records, and the projection is 30 times the
\* average, the total again; one record of 3.0 kWh gives 0.1 and 3.0.
C2_AverageOverThirtyDays ==
    (resp.op = "predict" /\ resp.logs # <<>>) =>
        /\ resp.avg_daily * PredictDays = SumPower(resp.logs)
        /\ resp.predicted_monthly_units = resp.avg_daily * PredictDays
        /\ (Len(resp.logs) = 1 /\ resp.logs[1].power_consumed = KWh(3)) =>
               /\ resp.response.average_daily_units = Some(10)
               /\ resp.response.predicted_units = 300

\* a forecast from a single record of 3.0 kWh
C2_Witness ==
    /\ resp.op = "predict"
    /\ Len(resp.logs) = 1
    /\ resp.logs[1].power_consumed = KWh(3)
    /\ resp.response.average_daily_units # None

\* C3 as stated: a month of 120 units is billed 630.5 variable, 100 fixed,
\* 730.5 in total.
C3_SlabbedBill ==
    (resp.op = "bill" /\ SumPower(resp.logs) = KWh(120)) =>
        /\ resp.response.variable_charge = 63050
        /\ resp.response.fixed_charge = 1000
        /\ resp.response.total_bill = 73050

\* C3, amended: the bill is flat; its fixed charge is the one fixed charge of
\* the tariff whatever the units, and a month of 120 units under the default
\* tariff is billed 1020.0 variable, 50.0 fixed, 1070.0 in total.
C3_FlatBill ==
    resp.op = "bill" =>
        /\ resp.response.fixed_charge = resp.tariff.fixed_charge
        /\ (SumPower(resp.logs) = KWh(120) /\ resp.tariff = DefaultTariff) =>
               /\ resp.response.variable_charge = 102000
               /\ resp.response.fixed_charge = 500
               /\ resp.response.total_bill = 107000

\* a bill of 120 units under the default tariff
C3_Witness ==
    /\ resp.op = "bill"
    /\ SumPower(resp.logs) = KWh(120)
    /\ resp.tariff = DefaultTariff

\* a step of calculate_bill, predict_cost or get_dashboard_data in frame r
ReadStepOf(r) ==
    /\ req'[r] # req[r]
    /\ \/ req[r] # Idle /\ req[r].op \in {"bill", "predict", "dashboard"}
       \/ req'[r] # Idle /\ req'[r].op \in {"bill", "predict", "dashboard"}

\* C4 as stated: no step of the three reading handlers changes a collection.
C4_ReadOnly ==
    [][(\E r \in Slots : ReadStepOf(r)) => UNCHANGED db]_vars

\* C4, amended: the reading handlers leave users, appliances and usage_logs
\* unchanged; tariffs changes in one step only, the insert of the default
\* tariff by a calculate_bill that found no tariff.
C4_ReadOnlyButDefaultTariff ==
    [][\A r \in Slots : ReadStepOf(r) =>
          /\ UNCHANGED <<users, appliances, usage_logs>>
          /\ IF req[r] # Idle /\ req[r].op = "bill" /\ req[r].pc = "insert"
             THEN tariffs' = Append(tariffs, DefaultTariff)
             ELSE UNCHANGED tariffs]_vars

\* a bill has just been returned after the default tariff was stored, next to
\* usage records and a user
C4_Witness ==
    /\ resp.op = "bill"
    /\ tariffs = <<DefaultTariff>>
    /\ usage_logs # <<>>
    /\ users # <<>>

\* C5: there is at most one tariff, and after an update_tariff with no tariff
\* write since, the stored tariff is the submitted one.
C5_SingleTariff ==
    /\ Len(tariffs) <= 1
    /\ settled # None => tariffs = <<settled[1]>>

\* C6: every stored appliance is ON or OFF.
C6_StatusOnOrOff ==
    \A a \in DOMAIN appliances : appliances[a].status \in {"ON", "OFF"}

\* C8: a control request ends in 404 only if no appliance has the id.
C8_NotFoundOnlyIfAbsent ==
    (resp.op = "control" /\ resp.code = 404) => resp.matched = 0

\* C9: a control request that switched an appliance from ON to OFF ends well
\* with exactly one usage record stored, and a request for ON stores none.
C9_OneRecordPerSwitchOff ==
    resp.op = "control" =>
        /\ (resp.was = Some("ON") /\ resp.status = "OFF") =>
               (resp.code = 200 /\ resp.logged = 1)
        /\ resp.status = "ON" => resp.logged = 0

\* a datetime and a stored timestamp as comparable tuples (fromisoformat: no
\* ".ffffff" is microsecond 0)
TimeKey(t) ==
    LET d == DateOf(t.day) IN <<d.year, d.mon, d.dom, t.sec, t.us>>
IsoKey(s) == <<s[1], s[2], s[3], s[4], IF s[5] = 46 THEN s[6] ELSE 0>>

\* the user's usage records from the first instant of the month of t through t
PeriodLogs(user_id, t) ==
    LET first == TimeKey([day |-> t.day - (DateOf(t.day).dom - 1), sec |-> 0, us |-> 0])
    IN  SelectSeq(usage_logs,
                  LAMBDA log : /\ log.user_id = user_id
                               /\ StrLeq(first, IsoKey(log.timestamp))
                               /\ StrLeq(IsoKey(log.timestamp), TimeKey(t)))

\* C10: the bill counts exactly the user's records stamped from the first
\* instant of the current month through the time of the request.
C10_WholeMonthCounted ==
    resp.op = "bill" => resp.logs = PeriodLogs(resp.user_id, resp.at[1])

\* C7: a bill over no records has 0 units, 0 variable charge and the fixed
\* charge as its total; every bill totals fixed_charge + total_units *
\* per_unit_charge of the stored tariff, 50.0 and 8.5 when none was stored.
C7_FlatTotal ==
    resp.op = "bill" =>
        LET b == resp.response
        IN  /\ resp.logs = <<>> =>
                   /\ b.total_units = 0
                   /\ b.variable_charge = 0
                   /\ b.total_bill = 10 * b.fixed_charge
            /\ b.total_bill = RoundMoney(ChargeAsMoney(b.fixed_charge)
                                         + SumPower(resp.logs) * b.per_unit_charge)
            /\ tariffs # <<>>
            /\ b.fixed_charge = Head(tariffs).fixed_charge
            /\ b.per_unit_charge = Head(tariffs).per_unit_charge
            /\ Head(tariffs) \notin SubmittedTariffs =>
                   (b.fixed_charge = 500 /\ b.per_unit_charge = 85)

\* a bill over no records, with no tariff stored before it
C7_Witness ==
    /\ resp.op = "bill"
    /\ resp.logs = <<>>
    /\ usage_logs # <<>>
    /\ tariffs = <<DefaultTariff>>

====
